---- MODULE Spec2Model ----
(***************************************************************************)
(* ADF41020 SPI sweep controller (register-generating sketch).             *)
(*                                                                         *)
(* The sketch runs on an 8-bit AVR: int is 16 bits, long is 32 bits,       *)
(* float/double are IEEE single precision (24-bit significand), byte is    *)
(* 8 bits.  The Arduino core calls setup() once and then loop() forever.   *)
(* pow(2,k) is taken as the exact power of two.                            *)
(***************************************************************************)
EXTENDS Integers, Sequences, FiniteSets, TLC

\* ------------------------------------------------------------------------
\* Configuration constants of the sketch
\* ------------------------------------------------------------------------
DWELL_TIME == 1000

SWEEP_PAUSE == 0

PULSE_DURATION == 500

LONG_DELAY == 100

DO_LONG_DELAY == FALSE

RFInputFrequency == 100

PFDFrequency == 1250

\* byte N2 = 0x00: the most significant byte of every feedback word sent.
N2 == 0

\* PORTD values written by the sketch: bit 7 is LE (pin 7), bit 6 is SI (pin 6).
B00000000 == 0

B10000000 == 128

B11000000 == 192

LE(port) == (port \div 128) % 2 = 1

SI(port) == (port \div 64) % 2 = 1

\* int freqVec[] as shipped (60 entries, MHz), indexed from 0 as in the sketch.
ShippedList ==
  << 10415, 10460, 10505, 10550, 10595, 10640, 10685, 10730, 10775, 10820,
     10865, 10910, 10955, 11000, 11045, 11090, 11135, 11180, 11225, 11270,
     11315, 11360, 11405, 11450, 11495, 11540, 11585, 11630, 11675, 11720,
     11765, 11810, 11855, 11900, 11945, 11990, 12035, 12080, 12125, 12170,
     12215, 12260, 12305, 12350, 12395, 12440, 12485, 12530, 12575, 12620,
     12665, 12710, 12755, 12800, 12845, 12890, 12935, 12980, 13025, 13070 >>

ShippedFreqVec == [k \in 0..(Len(ShippedList) - 1) |-> ShippedList[k + 1]]

\* The selector values hard-wired at the top of calcRegisters.
ShippedCfg ==
  [ PrescalerBoxIndex |-> 1,
    ChargePumpSetting1SelectedIndex |-> 3,
    ChargePumpSetting2SelectedIndex |-> 3,
    ChargePumpGainBoxSelectedIndex |-> 0,
    ChargePump3StateBoxSelectedIndex |-> 0,
    FastLockBoxSelectedIndex |-> 0,
    TimeoutBoxSelectedIndex |-> 0,
    PhaseDetectorPolarityBoxSelectedIndex |-> 0,
    CounterResetBoxSelectedIndex |-> 0,
    LockDetectPrecisionBoxSelectedIndex |-> 0,
    PowerDownBoxSelectedIndex |-> 0,
    ABPWBoxSelectedIndex |-> 0,
    SyncBoxSelectedIndex |-> 0,
    DelayBoxSelectedIndex |-> 0,
    MuxoutBoxSelectedIndex |-> 0,
    TestmodesBoxSelectedIndex |-> 1 ]

\* ------------------------------------------------------------------------
\* Bounds of the model
\* ------------------------------------------------------------------------
\* Longest frequency list enumerated besides the shipped one.
MaxLen == 2

\* The pass counter saturates here (the sweep itself never stops).
MaxPass == 2

\* Target frequencies (MHz) the enumerated lists are built from; all fit the
\* sketch's 16-bit int.
FreqSet == {10415, 10500, 13070, 20485}

FreqLists ==
  {ShippedFreqVec} \cup
  UNION {[0..(n - 1) -> FreqSet] : n \in 1..MaxLen}

\* Valid ranges of the selectors that reach the three words.
SelRange ==
  [ PrescalerBoxIndex |-> 0..3,
    ChargePumpSetting1SelectedIndex |-> 0..7,
    ChargePumpSetting2SelectedIndex |-> 0..7,
    ChargePumpGainBoxSelectedIndex |-> 0..1,
    ChargePump3StateBoxSelectedIndex |-> 0..1,
    FastLockBoxSelectedIndex |-> 0..2,
    TimeoutBoxSelectedIndex |-> 0..15,
    PhaseDetectorPolarityBoxSelectedIndex |-> 0..1,
    CounterResetBoxSelectedIndex |-> 0..1,
    LockDetectPrecisionBoxSelectedIndex |-> 0..1,
    PowerDownBoxSelectedIndex |-> 0..2,
    ABPWBoxSelectedIndex |-> 0..3,
    SyncBoxSelectedIndex |-> 0..1,
    DelayBoxSelectedIndex |-> 0..1,
    MuxoutBoxSelectedIndex |-> 0..7,
    TestmodesBoxSelectedIndex |-> 0..1 ]

\* Selector settings enumerated at power-up: every selector over its whole
\* range with the others as shipped, and the selectors that land in the low
\* byte of the function word (with the prescaler) over all combinations.
OneAtATimeCfgs ==
  {[ShippedCfg EXCEPT ![s] = v] : <<s, v>> \in
     UNION {{<<s, v>> : v \in SelRange[s]} : s \in DOMAIN SelRange}}

LowByteCfgs ==
  {[ShippedCfg EXCEPT !.PrescalerBoxIndex = p,
                      !.PhaseDetectorPolarityBoxSelectedIndex = pol,
                      !.MuxoutBoxSelectedIndex = m,
                      !.PowerDownBoxSelectedIndex = pd,
                      !.CounterResetBoxSelectedIndex = cr] :
     <<p, pol, m, pd, cr>> \in
        (0..3) \X (0..1) \X (0..7) \X (0..2) \X (0..1)}

CfgSet == OneAtATimeCfgs \cup LowByteCfgs

\* Selector settings enumerated for the transmission phase.
SweepCfgs ==
  { ShippedCfg,
    [ShippedCfg EXCEPT !.PrescalerBoxIndex = 0,
                       !.ChargePumpGainBoxSelectedIndex = 1],
    [ShippedCfg EXCEPT !.PowerDownBoxSelectedIndex = 2,
                       !.MuxoutBoxSelectedIndex = 7] }

\* ------------------------------------------------------------------------
\* Machine arithmetic
\* ------------------------------------------------------------------------
RECURSIVE Pow2(_)
Pow2(n) == IF n = 0 THEN 1 ELSE 2 * Pow2(n - 1)

\* (byte)x
ToByte(x) == x % 256

\* lowByte(x)
lowByte(x) == x % 256

\* x >> n on a non-negative long
Shr(x, n) == x \div Pow2(n)

\* x & (2^n - 1) on a non-negative int
MaskBits(x, n) == x % Pow2(n)

\* Rounding of a non-negative integer to the nearest single-precision float
\* (24-bit significand, ties to even).
RECURSIVE F32Ulp(_, _)
F32Ulp(x, u) == IF x < Pow2(24) * u THEN u ELSE F32Ulp(x, 2 * u)

F32Round(x) ==
  LET u == F32Ulp(x, 1)
      q == x \div u
      r == x % u
  IN  IF 2 * r > u \/ (2 * r = u /\ q % 2 = 1) THEN (q + 1) * u ELSE q * u

\* (the argument is evaluated once, then rounded)
F32(x) == CHOOSE y \in {F32Round(v) : v \in {x}} : TRUE

\* A left-to-right float sum, rounded after every addition.
RECURSIVE FSum(_, _)
FSum(acc, terms) ==
  IF terms = <<>> THEN acc
  ELSE FSum(F32(acc + F32(Head(terms))), Tail(terms))

\* (long) of a float: truncation toward zero.  Every float cast here holds a
\* whole number below 2^25, which a 32-bit long represents exactly.
ToLong(x) == x

\* ------------------------------------------------------------------------
\* calcRegisters: the arithmetic
\* ------------------------------------------------------------------------
\* RFOutFreqBox, RefFreqBox, PFDFreqBox are whole numbers of MHz held in
\* floats.  RFout/4 and RFout*1000 are exact in single precision for these
\* magnitudes, and a quotient of integers below 2^24 never rounds up to the
\* next whole number, so the (int) casts truncate the exact quotients.
\* Variant whose prescaler values start at 4 (4, 8, 16, 32).
PrescalerFromFour(PrescalerBoxIndex) == Pow2(PrescalerBoxIndex) * 4

\* pow(2, PrescalerBoxIndex) * 8: the prescaler values 8, 16, 32, 64
Prescaler8(PrescalerBoxIndex) == Pow2(PrescalerBoxIndex) * 8

\* Variant that leaves out RFout = RFout/4.
calcCountersUndivided(RFOutFreqBox, RefFreqBox, PFDFreqBox, PrescalerBoxIndex) ==
  LET P == Prescaler8(PrescalerBoxIndex)
      R == (RefFreqBox * 1000) \div PFDFreqBox
      N == (RFOutFreqBox * 1000) \div PFDFreqBox
      B == N \div P
      A == N - (B * P)
  IN  [P |-> P, R |-> R, N |-> N, B |-> B, A |-> A]

\* Variant that takes the reference counter from MHz / kHz without the
\* factor 1000.
calcCountersRefUnscaled(RFOutFreqBox, RefFreqBox, PFDFreqBox, PrescalerBoxIndex) ==
  LET P == Prescaler8(PrescalerBoxIndex)
      R == RefFreqBox \div PFDFreqBox
      N == (RFOutFreqBox * 1000) \div (4 * PFDFreqBox)
      B == N \div P
      A == N - (B * P)
  IN  [P |-> P, R |-> R, N |-> N, B |-> B, A |-> A]

\* RFout = RFout/4, then the P, R, N, B and A values
calcCounters(RFOutFreqBox, RefFreqBox, PFDFreqBox, PrescalerBoxIndex) ==
  LET P == Prescaler8(PrescalerBoxIndex)
      R == (RefFreqBox * 1000) \div PFDFreqBox
      N == (RFOutFreqBox * 1000) \div (4 * PFDFreqBox)
      B == N \div P
      A == N - (B * P)
  IN  [P |-> P, R |-> R, N |-> N, B |-> B, A |-> A]

calcWords(RFOutFreqBox, RefFreqBox, PFDFreqBox, c) ==
  LET cnt == calcCounters(RFOutFreqBox, RefFreqBox, PFDFreqBox,
                          c.PrescalerBoxIndex)
      P == cnt.P
      R == cnt.R
      N == cnt.N
      B == cnt.B
      A == cnt.A
      Prescaler == ToByte(c.PrescalerBoxIndex)
      CPsetting1 == ToByte(c.ChargePumpSetting1SelectedIndex)
      CPsetting2 == ToByte(c.ChargePumpSetting2SelectedIndex)
      CPGain == ToByte(c.ChargePumpGainBoxSelectedIndex)
      CP3state == ToByte(c.ChargePump3StateBoxSelectedIndex)
      Fastlock0 == ToByte(c.FastLockBoxSelectedIndex)
      Fastlock == IF Fastlock0 = 2 THEN Fastlock0 + 1 ELSE Fastlock0
      Timeout == ToByte(c.TimeoutBoxSelectedIndex)
      PDPolarity == ToByte(c.PhaseDetectorPolarityBoxSelectedIndex)
      CounterReset == ToByte(c.CounterResetBoxSelectedIndex)
      Powerdown0 == ToByte(c.PowerDownBoxSelectedIndex)
      Powerdown == IF Powerdown0 = 2 THEN Powerdown0 + 1 ELSE Powerdown0
      Muxout == ToByte(c.MuxoutBoxSelectedIndex)
      Testmodes == ToByte(c.TestmodesBoxSelectedIndex)
      Reg0 == FSum(0, << Pow2(23), Pow2(20), Testmodes * Pow2(16),
                         MaskBits(R, 14) * Pow2(2) >>)
      Reg1 == FSum(0, << CPGain * Pow2(21), MaskBits(B, 13) * Pow2(8),
                         MaskBits(A, 6) * Pow2(2), 1 >>)
      Reg2 == FSum(0, << Prescaler * Pow2(22), CPsetting2 * Pow2(18),
                         CPsetting1 * Pow2(15), Timeout * Pow2(11),
                         Fastlock * Pow2(9), CP3state * Pow2(8),
                         PDPolarity * Pow2(7), Muxout * Pow2(4),
                         Powerdown * Pow2(3), CounterReset * Pow2(2), 2 >>)
      Reg2Terms == << Prescaler * Pow2(22), CPsetting2 * Pow2(18),
                      CPsetting1 * Pow2(15), Timeout * Pow2(11),
                      Fastlock * Pow2(9), CP3state * Pow2(8),
                      PDPolarity * Pow2(7), Muxout * Pow2(4),
                      Powerdown * Pow2(3), CounterReset * Pow2(2), 2 >>
  IN  [ P |-> P, R |-> R, N |-> N, B |-> B, A |-> A,
        Reg |-> [k \in 0..2 |-> ToLong(<<Reg0, Reg1, Reg2>>[k + 1])],
        Reg2Terms |-> Reg2Terms ]

\* The three bytes the sketch takes from a register value, MSB first.
RegBytes(reg) ==
  << lowByte(Shr(reg, 16)), lowByte(Shr(reg, 8)), lowByte(reg) >>

\* The two least-significant bits of a byte or word: the destination tag.
Tag(x) == x % 4

\* ------------------------------------------------------------------------
\* State
\* ------------------------------------------------------------------------
VARIABLES
  freqVec,    \* int freqVec[], a function on 0..N-1
  cfg,        \* the selector values of calcRegisters
  pc,         \* position of the single thread of control
  i,          \* the loop index of setup's and loop's for statements
  N0, N1,     \* byte N0[], N1[]
  R0, R1, R2, \* byte R0, R1, R2
  F0, F1, F2, \* byte F0, F1, F2
  R0A, R1A, R2A,  \* byte R0A[], R1A[], R2A[]
  F0A, F1A, F2A,  \* byte F0A[], F1A[], F2A[]
  PORTD,      \* the port register driving LE (bit 7) and SI (bit 6)
  serial,     \* lines printed on the serial monitor
  tx,         \* the arguments and return place of SPIwrite24bitRegister
  shifted,    \* bytes shifted out by SPI.transfer since LE last rose
  initWords,  \* words latched (LE rising edge) while setup runs
  passWords,  \* words latched in the current call of loop
  elapsed,    \* programmed delay (microseconds) since LE last rose
  leWidth,    \* programmed delay spent with LE high in the last pulse
  waits,      \* the values handed to the delay calls since LE last rose
  pass,       \* calls of loop completed, saturating at MaxPass
  mismatch    \* TRUE once one of setup's two comparisons found a difference

tables == <<N0, N1, R0, R1, R2, F0, F1, F2, R0A, R1A, R2A, F0A, F1A, F2A>>

bus == <<PORTD, shifted, initWords, passWords, elapsed, leWidth, waits>>

vars == <<freqVec, cfg, pc, i, tables, bus, serial, tx, pass, mismatch>>

\* sizeof(freqVec)/sizeof(int), which is also sizeof(N0)
NumFreqs == Cardinality(DOMAIN freqVec)

NoCall == [b23to16 |-> 0, b15to8 |-> 0, b7to0 |-> 0, NewFrame |-> FALSE,
           ret |-> "none"]

RMessage == "RCounter changed during sweep. This is not yet supported. Execution halted"

FMessage == "Function Latch changed during sweep. This is not yet supported. Execution halted"

\* Control positions inside setup (everything before loop is first called).
SetupPcs ==
  { "setup", "s_for", "s_calc", "s_chkR", "s_chkF", "s_printR", "s_printF",
    "s_halt",
    "s_spi", "s_wait",
    "sF_b2", "sF_b1", "sF_b0", "sF_le", "sF_hold", "sF_low", "sF_idle",
    "sR_b2", "sR_b1", "sR_b0", "sR_le", "sR_hold", "sR_low", "sR_idle",
    "t_setup", "t_wait",
    "tF_b2", "tF_b1", "tF_b0", "tF_le", "tF_hold", "tF_low", "tF_idle",
    "tR_b2", "tR_b1", "tR_b0", "tR_le", "tR_hold", "tR_low", "tR_idle" }

\* ------------------------------------------------------------------------
\* The bus as the chip sees it
\* ------------------------------------------------------------------------
\* SPI.transfer(b): one more byte in the chip's shift register.
Transfer(b) ==
  /\ shifted' = Append(shifted, b)
  /\ UNCHANGED <<PORTD, initWords, passWords, elapsed, leWidth, waits>>

\* PORTD = v.  A rising edge of LE latches what was shifted since the last one.
PortWrite(v) ==
  /\ PORTD' = v
  /\ IF ~LE(PORTD) /\ LE(v)
     THEN LET w == [bytes |-> shifted, sync |-> SI(v), gap |-> elapsed]
          IN  /\ IF pc \in SetupPcs
                 THEN initWords' = Append(initWords, w) /\ UNCHANGED passWords
                 ELSE passWords' = Append(passWords, w) /\ UNCHANGED initWords
              /\ shifted' = <<>>
              /\ elapsed' = 0
              /\ leWidth' = 0
              /\ waits' = <<>>
     ELSE UNCHANGED <<shifted, initWords, passWords, elapsed, leWidth, waits>>

\* (unsigned int)x of a 16-bit int
ToUInt(x) == x % 65536

\* delayMicroseconds(unsigned int us), called with the int d
delayMicroseconds(d) ==
  /\ elapsed' = elapsed + ToUInt(d)
  /\ leWidth' = IF LE(PORTD) THEN leWidth + ToUInt(d) ELSE leWidth
  /\ waits' = Append(waits, d)
  /\ UNCHANGED <<PORTD, shifted, initWords, passWords>>

\* delayer(delval): delay(LONG_DELAY) milliseconds first if DO_LONG_DELAY.
delayer(delval) ==
  delayMicroseconds((IF DO_LONG_DELAY THEN LONG_DELAY * 1000 ELSE 0) + delval)

\* ------------------------------------------------------------------------
\* Power-up
\* ------------------------------------------------------------------------
ZeroArray(f) == [k \in DOMAIN f |-> 0]

\* Globals are zero-initialised, the port is low, nothing has been sent.
InitWith(lists, cfgs) ==
  /\ freqVec \in lists
  /\ cfg \in cfgs
  /\ pc = "setup"
  /\ i = 0
  /\ N0 = ZeroArray(freqVec) /\ N1 = ZeroArray(freqVec)
  /\ R0 = 0 /\ R1 = 0 /\ R2 = 0
  /\ F0 = 0 /\ F1 = 0 /\ F2 = 0
  /\ R0A = ZeroArray(freqVec) /\ R1A = ZeroArray(freqVec)
  /\ R2A = ZeroArray(freqVec)
  /\ F0A = ZeroArray(freqVec) /\ F1A = ZeroArray(freqVec)
  /\ F2A = ZeroArray(freqVec)
  /\ PORTD = B00000000
  /\ serial = <<>>
  /\ tx = NoCall
  /\ shifted = <<>>
  /\ initWords = <<>>
  /\ passWords = <<>>
  /\ elapsed = 0
  /\ leWidth = 0
  /\ waits = <<>>
  /\ pass = 0
  /\ mismatch = FALSE

Init == InitWith(FreqLists, CfgSet)

\* ------------------------------------------------------------------------
\* setup: pins, then the population loop with its two comparisons
\* ------------------------------------------------------------------------
\* DDRD |= B11000000; PORTD = B00000000; Serial.begin(9600); int i = 0
SetupBegin ==
  /\ pc = "setup"
  /\ PortWrite(B00000000)
  /\ i' = 0
  /\ pc' = "s_for"
  /\ UNCHANGED <<freqVec, cfg, tables, serial, tx, pass, mismatch>>

\* i < sizeof(freqVec)/sizeof(int)
SetupForTest ==
  /\ pc = "s_for"
  /\ pc' = IF i < NumFreqs THEN "s_calc" ELSE "s_spi"
  /\ UNCHANGED <<freqVec, cfg, i, tables, bus, serial, tx, pass, mismatch>>

\* Variant of calcRegisters with the two feedback bytes stored the wrong way
\* round (N0 takes the middle byte, N1 the low byte).
calcRegistersSwapped ==
  /\ pc = "s_calc"
  /\ \E Reg \in {calcWords(freqVec[i], RFInputFrequency, PFDFrequency, cfg).Reg} :
         /\ N0' = [N0 EXCEPT ![i] = ToByte(lowByte(Shr(Reg[1], 8)))]
         /\ N1' = [N1 EXCEPT ![i] = ToByte(lowByte(Reg[1]))]
         /\ IF i = 0
            THEN /\ R0' = ToByte(lowByte(Reg[0]))
                 /\ R1' = ToByte(lowByte(Shr(Reg[0], 8)))
                 /\ R2' = ToByte(lowByte(Shr(Reg[0], 16)))
                 /\ F0' = ToByte(lowByte(Reg[2]))
                 /\ F1' = ToByte(lowByte(Shr(Reg[2], 8)))
                 /\ F2' = ToByte(lowByte(Shr(Reg[2], 16)))
            ELSE UNCHANGED <<R0, R1, R2, F0, F1, F2>>
         /\ R0A' = [R0A EXCEPT ![i] = ToByte(lowByte(Reg[0]))]
         /\ R1A' = [R1A EXCEPT ![i] = ToByte(lowByte(Shr(Reg[0], 8)))]
         /\ R2A' = [R2A EXCEPT ![i] = ToByte(lowByte(Shr(Reg[0], 16)))]
         /\ UNCHANGED <<F0A, F1A, F2A>>
  /\ pc' = "s_chkR"
  /\ UNCHANGED <<freqVec, cfg, i, bus, serial, tx, pass, mismatch>>

\* calcRegisters(freqVec[i], RFInputFrequency, PFDFrequency, i)
calcRegisters ==
  /\ pc = "s_calc"
  /\ \E Reg \in {calcWords(freqVec[i], RFInputFrequency, PFDFrequency, cfg).Reg} :
         /\ N0' = [N0 EXCEPT ![i] = ToByte(lowByte(Reg[1]))]
         /\ N1' = [N1 EXCEPT ![i] = ToByte(lowByte(Shr(Reg[1], 8)))]
         /\ IF i = 0
            THEN /\ R0' = ToByte(lowByte(Reg[0]))
                 /\ R1' = ToByte(lowByte(Shr(Reg[0], 8)))
                 /\ R2' = ToByte(lowByte(Shr(Reg[0], 16)))
                 /\ F0' = ToByte(lowByte(Reg[2]))
                 /\ F1' = ToByte(lowByte(Shr(Reg[2], 8)))
                 /\ F2' = ToByte(lowByte(Shr(Reg[2], 16)))
            ELSE UNCHANGED <<R0, R1, R2, F0, F1, F2>>
         /\ R0A' = [R0A EXCEPT ![i] = ToByte(lowByte(Reg[0]))]
         /\ R1A' = [R1A EXCEPT ![i] = ToByte(lowByte(Shr(Reg[0], 8)))]
         /\ R2A' = [R2A EXCEPT ![i] = ToByte(lowByte(Shr(Reg[0], 16)))]
         \* F0A, F1A and F2A are not assigned anywhere in calcRegisters
         /\ UNCHANGED <<F0A, F1A, F2A>>
  /\ pc' = "s_chkR"
  /\ UNCHANGED <<freqVec, cfg, i, bus, serial, tx, pass, mismatch>>

\* if (R0 != R0A[i] || R1 != R1A[i] || R2 != R2A[i])
CheckRCounter ==
  /\ pc = "s_chkR"
  /\ IF R0 # R0A[i] \/ R1 # R1A[i] \/ R2 # R2A[i]
     THEN mismatch' = TRUE /\ pc' = "s_printR"
     ELSE pc' = "s_chkF" /\ UNCHANGED mismatch
  /\ UNCHANGED <<freqVec, cfg, i, tables, bus, serial, tx, pass>>

\* if (F0 != F0A[i] || F1 != F1A[i] || F2 != F2A[i]); otherwise i++
CheckFunctionLatch ==
  /\ pc = "s_chkF"
  /\ IF F0 # F0A[i] \/ F1 # F1A[i] \/ F2 # F2A[i]
     THEN mismatch' = TRUE /\ pc' = "s_printF" /\ UNCHANGED i
     ELSE i' = i + 1 /\ pc' = "s_for" /\ UNCHANGED mismatch
  /\ UNCHANGED <<freqVec, cfg, tables, bus, serial, tx, pass>>

\* Serial.println("... Execution halted")
Report ==
  /\ pc \in {"s_printR", "s_printF"}
  /\ serial' = Append(serial, IF pc = "s_printR" THEN RMessage ELSE FMessage)
  /\ pc' = "s_halt"
  /\ UNCHANGED <<freqVec, cfg, i, tables, bus, tx, pass, mismatch>>

\* Variant of the halt that pauses once and lets setup carry on.
HaltLoopReturns ==
  /\ pc = "s_halt"
  /\ pc' = "s_spi"
  /\ UNCHANGED <<freqVec, cfg, i, tables, bus, serial, tx, pass, mismatch>>

\* while (true) { delay(1); }
HaltLoop ==
  /\ pc = "s_halt"
  /\ UNCHANGED vars

\* The steps of setup up to the end of its population loop.  From power-up
\* control never gets past the function-latch comparison of the first
\* element, so these are all the steps the sketch takes; the rest of setup
\* and loop are the steps of NextSweep below.
Next ==
  \/ SetupBegin
  \/ SetupForTest
  \/ calcRegisters
  \/ CheckRCounter
  \/ CheckFunctionLatch
  \/ Report
  \/ HaltLoop

Spec == Init /\ [][Next]_vars

\* ------------------------------------------------------------------------
\* setup after the population loop: bus initialisation and the two
\* sweep-invariant words, sent inline
\* ------------------------------------------------------------------------
\* The bytes calcRegisters stores for list element k, as setup's population
\* loop leaves them when it runs to its end.
BytesOf(k) == calcWords(freqVec[k], RFInputFrequency, PFDFrequency, cfg).Reg

\* Control at SPI.begin() as the population loop hands over when neither
\* comparison fires for any element: the tables populated for every list
\* element, F0A, F1A and F2A with their zero initialisers.  The transmission
\* code (the rest of setup, SPIwrite24bitRegister, loop) is examined from here.
InitSweep ==
  /\ freqVec \in FreqLists
  /\ cfg \in SweepCfgs
  /\ pc = "s_spi"
  /\ i = NumFreqs
  /\ N0 = [k \in DOMAIN freqVec |-> ToByte(lowByte(BytesOf(k)[1]))]
  /\ N1 = [k \in DOMAIN freqVec |-> ToByte(lowByte(Shr(BytesOf(k)[1], 8)))]
  /\ R0 = ToByte(lowByte(BytesOf(0)[0]))
  /\ R1 = ToByte(lowByte(Shr(BytesOf(0)[0], 8)))
  /\ R2 = ToByte(lowByte(Shr(BytesOf(0)[0], 16)))
  /\ F0 = ToByte(lowByte(BytesOf(0)[2]))
  /\ F1 = ToByte(lowByte(Shr(BytesOf(0)[2], 8)))
  /\ F2 = ToByte(lowByte(Shr(BytesOf(0)[2], 16)))
  /\ R0A = [k \in DOMAIN freqVec |-> ToByte(lowByte(BytesOf(k)[0]))]
  /\ R1A = [k \in DOMAIN freqVec |-> ToByte(lowByte(Shr(BytesOf(k)[0], 8)))]
  /\ R2A = [k \in DOMAIN freqVec |-> ToByte(lowByte(Shr(BytesOf(k)[0], 16)))]
  /\ F0A = ZeroArray(freqVec) /\ F1A = ZeroArray(freqVec)
  /\ F2A = ZeroArray(freqVec)
  /\ PORTD = B00000000
  /\ serial = <<>>
  /\ tx = NoCall
  /\ shifted = <<>>
  /\ initWords = <<>>
  /\ passWords = <<>>
  /\ elapsed = 0
  /\ leWidth = 0
  /\ waits = <<>>
  /\ pass = 0
  /\ mismatch = FALSE

\* SPI.begin(); setBitOrder(MSBFIRST); setDataMode(SPI_MODE0); setClockDivider
SPIbegin ==
  /\ pc = "s_spi"
  /\ pc' = "s_wait"
  /\ UNCHANGED <<freqVec, cfg, i, tables, bus, serial, tx, pass, mismatch>>

\* delayer(SWEEP_PAUSE)
SetupWait ==
  /\ pc = "s_wait"
  /\ delayer(SWEEP_PAUSE)
  /\ pc' = "sF_b2"
  /\ UNCHANGED <<freqVec, cfg, i, tables, serial, tx, pass, mismatch>>

\* The byte each inline SPI.transfer of setup sends, and the place after it.
SetupByte(at) ==
  CASE at = "sF_b2" -> F2
    [] at = "sF_b1" -> F1
    [] at = "sF_b0" -> F0
    [] at = "sR_b2" -> R2
    [] at = "sR_b1" -> R1
    [] at = "sR_b0" -> R0

SetupAfter(at) ==
  CASE at = "sF_b2" -> "sF_b1"
    [] at = "sF_b1" -> "sF_b0"
    [] at = "sF_b0" -> "sF_le"
    [] at = "sF_le" -> "sF_hold"
    [] at = "sF_hold" -> "sF_low"
    [] at = "sF_low" -> "sF_idle"
    [] at = "sF_idle" -> "sR_b2"
    [] at = "sR_b2" -> "sR_b1"
    [] at = "sR_b1" -> "sR_b0"
    [] at = "sR_b0" -> "sR_le"
    [] at = "sR_le" -> "sR_hold"
    [] at = "sR_hold" -> "sR_low"
    [] at = "sR_low" -> "sR_idle"
    [] at = "sR_idle" -> "loop"

\* SPI.transfer(F2); SPI.transfer(F1); SPI.transfer(F0); and the same for R
SetupTransfer ==
  /\ pc \in {"sF_b2", "sF_b1", "sF_b0", "sR_b2", "sR_b1", "sR_b0"}
  /\ Transfer(SetupByte(pc))
  /\ pc' = SetupAfter(pc)
  /\ UNCHANGED <<freqVec, cfg, i, tables, serial, tx, pass, mismatch>>

\* PORTD = B10000000
SetupLatchHigh ==
  /\ pc \in {"sF_le", "sR_le"}
  /\ PortWrite(B10000000)
  /\ pc' = SetupAfter(pc)
  /\ UNCHANGED <<freqVec, cfg, i, tables, serial, tx, pass, mismatch>>

\* delayMicroseconds(PULSE_DURATION)
SetupPulse ==
  /\ pc \in {"sF_hold", "sR_hold"}
  /\ delayMicroseconds(PULSE_DURATION)
  /\ pc' = SetupAfter(pc)
  /\ UNCHANGED <<freqVec, cfg, i, tables, serial, tx, pass, mismatch>>

\* PORTD = B00000000
SetupLatchLow ==
  /\ pc \in {"sF_low", "sR_low"}
  /\ PortWrite(B00000000)
  /\ pc' = SetupAfter(pc)
  /\ UNCHANGED <<freqVec, cfg, i, tables, serial, tx, pass, mismatch>>

\* delayer(DWELL_TIME-PULSE_DURATION); after the second one setup returns
SetupDwell ==
  /\ pc \in {"sF_idle", "sR_idle"}
  /\ delayer(DWELL_TIME - PULSE_DURATION)
  /\ pc' = SetupAfter(pc)
  /\ UNCHANGED <<freqVec, cfg, i, tables, serial, tx, pass, mismatch>>

\* ------------------------------------------------------------------------
\* SPIwrite24bitRegister(b23to16, b15to8, b7to0, NewFrame)
\* ------------------------------------------------------------------------
Call(b2, b1, b0, newFrame, ret) ==
  [b23to16 |-> b2, b15to8 |-> b1, b7to0 |-> b0, NewFrame |-> newFrame,
   ret |-> ret]

\* SPI.transfer(b23to16); SPI.transfer(b15to8); SPI.transfer(b7to0)
WriteTransfer ==
  /\ pc \in {"w_b2", "w_b1", "w_b0"}
  /\ Transfer(CASE pc = "w_b2" -> tx.b23to16
                [] pc = "w_b1" -> tx.b15to8
                [] pc = "w_b0" -> tx.b7to0)
  /\ pc' = (CASE pc = "w_b2" -> "w_b1"
              [] pc = "w_b1" -> "w_b0"
              [] pc = "w_b0" -> "w_le")
  /\ UNCHANGED <<freqVec, cfg, i, tables, serial, tx, pass, mismatch>>

\* Variant that raises SI with LE whatever NewFrame says.
WriteLatchHighAlwaysSync ==
  /\ pc = "w_le"
  /\ PortWrite(B11000000)
  /\ pc' = "w_hold"
  /\ UNCHANGED <<freqVec, cfg, i, tables, serial, tx, pass, mismatch>>

\* if (NewFrame) PORTD = B11000000; else PORTD = B10000000
WriteLatchHigh ==
  /\ pc = "w_le"
  /\ PortWrite(IF tx.NewFrame THEN B11000000 ELSE B10000000)
  /\ pc' = "w_hold"
  /\ UNCHANGED <<freqVec, cfg, i, tables, serial, tx, pass, mismatch>>

\* delayMicroseconds(PULSE_DURATION)
WritePulse ==
  /\ pc = "w_hold"
  /\ delayMicroseconds(PULSE_DURATION)
  /\ pc' = "w_low"
  /\ UNCHANGED <<freqVec, cfg, i, tables, serial, tx, pass, mismatch>>

\* Variant that clears SI only and leaves LE high.
WriteLatchLowKeepsLE ==
  /\ pc = "w_low"
  /\ PortWrite(B10000000)
  /\ pc' = "w_idle"
  /\ UNCHANGED <<freqVec, cfg, i, tables, serial, tx, pass, mismatch>>

\* PORTD = B00000000
WriteLatchLow ==
  /\ pc = "w_low"
  /\ PortWrite(B00000000)
  /\ pc' = "w_idle"
  /\ UNCHANGED <<freqVec, cfg, i, tables, serial, tx, pass, mismatch>>

\* Variant with the operands of the subtraction the other way round.
WriteDwellReversed ==
  /\ pc = "w_idle"
  /\ delayer(PULSE_DURATION - DWELL_TIME)
  /\ pc' = tx.ret
  /\ tx' = NoCall
  /\ UNCHANGED <<freqVec, cfg, i, tables, serial, pass, mismatch>>

\* Variant that idles for the whole DWELL_TIME after the pulse.
WriteDwellFull ==
  /\ pc = "w_idle"
  /\ delayer(DWELL_TIME)
  /\ pc' = tx.ret
  /\ tx' = NoCall
  /\ UNCHANGED <<freqVec, cfg, i, tables, serial, pass, mismatch>>

\* delayer(DWELL_TIME-PULSE_DURATION); return to the caller
WriteDwell ==
  /\ pc = "w_idle"
  /\ delayer(DWELL_TIME - PULSE_DURATION)
  /\ pc' = tx.ret
  /\ tx' = NoCall
  /\ UNCHANGED <<freqVec, cfg, i, tables, serial, pass, mismatch>>

\* ------------------------------------------------------------------------
\* loop
\* ------------------------------------------------------------------------
\* The core calls loop(): int i = 0
LoopEnter ==
  /\ pc = "loop"
  /\ i' = 0
  /\ passWords' = <<>>
  /\ pc' = "l_for"
  /\ UNCHANGED <<freqVec, cfg, tables, PORTD, shifted, initWords, elapsed,
                 leWidth, waits, serial, tx, pass, mismatch>>

\* Variant without the call after the for statement.
LoopStepNoResend ==
  /\ pc = "l_for"
  /\ IF i < NumFreqs
     THEN tx' = Call(N2, N1[i], N0[i], i = 0, "l_inc") /\ pc' = "w_b2"
     ELSE tx' = tx /\ pc' = "l_pause"
  /\ UNCHANGED <<freqVec, cfg, i, tables, bus, serial, pass, mismatch>>

\* Variant that always takes the low byte of entry 0.
LoopStepLowByteOfFirst ==
  /\ pc = "l_for"
  /\ tx' = IF i < NumFreqs
           THEN Call(N2, N1[i], N0[0], i = 0, "l_inc")
           ELSE Call(N2, N1[0], N0[0], FALSE, "l_pause")
  /\ pc' = "w_b2"
  /\ UNCHANGED <<freqVec, cfg, i, tables, bus, serial, pass, mismatch>>

\* i < sizeof(N0): call SPIwrite24bitRegister(N2, N1[i], N0[i], i==0);
\* otherwise the call after the for statement, with N1[0], N0[0] and false
LoopStep ==
  /\ pc = "l_for"
  /\ tx' = IF i < NumFreqs
           THEN Call(N2, N1[i], N0[i], i = 0, "l_inc")
           ELSE Call(N2, N1[0], N0[0], FALSE, "l_pause")
  /\ pc' = "w_b2"
  /\ UNCHANGED <<freqVec, cfg, i, tables, bus, serial, pass, mismatch>>

\* i++
LoopInc ==
  /\ pc = "l_inc"
  /\ i' = i + 1
  /\ pc' = "l_for"
  /\ UNCHANGED <<freqVec, cfg, tables, bus, serial, tx, pass, mismatch>>

\* Variant in which loop is not called again after it returns.
LoopPauseOnce ==
  /\ pc = "l_pause"
  /\ delayer(SWEEP_PAUSE)
  /\ pass' = IF pass < MaxPass THEN pass + 1 ELSE pass
  /\ pc' = "done"
  /\ UNCHANGED <<freqVec, cfg, i, tables, serial, tx, mismatch>>

\* delayer(SWEEP_PAUSE); loop returns and the core calls it again
LoopPause ==
  /\ pc = "l_pause"
  /\ delayer(SWEEP_PAUSE)
  /\ pass' = IF pass < MaxPass THEN pass + 1 ELSE pass
  /\ pc' = "loop"
  /\ UNCHANGED <<freqVec, cfg, i, tables, serial, tx, mismatch>>

NextSweep ==
  \/ SPIbegin
  \/ SetupWait
  \/ SetupTransfer
  \/ SetupLatchHigh
  \/ SetupPulse
  \/ SetupLatchLow
  \/ SetupDwell
  \/ WriteTransfer
  \/ WriteLatchHigh
  \/ WritePulse
  \/ WriteLatchLow
  \/ WriteDwell
  \/ LoopEnter
  \/ LoopStep
  \/ LoopInc
  \/ LoopPause

SpecSweep == InitSweep /\ [][NextSweep]_vars

\* The sketch is the only thread of control and the processor never stops
\* executing it: a step that can be taken is eventually taken.
SpecSweepFair == InitSweep /\ [][NextSweep]_vars /\ WF_vars(NextSweep)

\* ------------------------------------------------------------------------
\* The sketch with the precalculated table (second half of the file).  It
\* has no frequency list, no selectors and no serial output: freqVec, cfg,
\* the R*A and F*A arrays, serial and mismatch stay empty or unset in it.
\* ------------------------------------------------------------------------
LE_DURATION == 500

TRANSMIT_DELAY == 1000

SWEEP_DELAY == 0

DELAY_IS_MICROSECONDS == TRUE

\* byte R2 = 0x91, R1 = 0x01, R0 = 0x40
TableR == << 145, 1, 64 >>

\* byte F2 = 0x4D, F1 = 0x80, F0 = 0x02
TableF == << 77, 128, 2 >>

\* byte N1 [] = {0x83, 0x84, ... 0xA2}
TableN1 ==
  << 131, 132, 133, 135, 136, 137, 138, 140, 141, 142, 143, 145, 146,
     147, 148, 150, 151, 152, 153, 155, 156, 157, 158, 160, 161, 162 >>

\* byte N0 [] = {0x11, 0x21, 0x31, 0x01, ... 0x11, 0x21}
TableN0 ==
  << 17, 33, 49, 1, 17, 33, 49, 1, 17, 33, 49, 1, 17, 33, 49, 1, 17, 33,
     49, 1, 17, 33, 49, 1, 17, 33 >>

\* The table as shipped, and the same table cut down to its first entries.
TableLengths == {Len(TableN0)} \cup (1..MaxLen)

\* sizeof(N0)
TableSize == Cardinality(DOMAIN N0)

\* delayer(delval, delayType): it tests DELAY_IS_MICROSECONDS, not delayType;
\* delay(delval) waits milliseconds.
delayerTyped(delval, delayType) ==
  IF DELAY_IS_MICROSECONDS
  THEN delayMicroseconds(delval)
  ELSE /\ elapsed' = elapsed + delval * 1000
       /\ leWidth' = IF LE(PORTD) THEN leWidth + delval * 1000 ELSE leWidth
       /\ waits' = Append(waits, delval)
       /\ UNCHANGED <<PORTD, shifted, initWords, passWords>>

InitTable ==
  /\ freqVec = <<>>
  /\ cfg = <<>>
  /\ pc = "t_setup"
  /\ i = 0
  /\ \E n \in TableLengths :
        /\ N0 = [k \in 0..(n - 1) |-> TableN0[k + 1]]
        /\ N1 = [k \in 0..(n - 1) |-> TableN1[k + 1]]
  /\ R2 = TableR[1] /\ R1 = TableR[2] /\ R0 = TableR[3]
  /\ F2 = TableF[1] /\ F1 = TableF[2] /\ F0 = TableF[3]
  /\ R0A = <<>> /\ R1A = <<>> /\ R2A = <<>>
  /\ F0A = <<>> /\ F1A = <<>> /\ F2A = <<>>
  /\ PORTD = B00000000
  /\ serial = <<>>
  /\ tx = NoCall
  /\ shifted = <<>>
  /\ initWords = <<>>
  /\ passWords = <<>>
  /\ elapsed = 0
  /\ leWidth = 0
  /\ waits = <<>>
  /\ pass = 0
  /\ mismatch = FALSE

\* DDRD |= B11000000; PORTD = B00000000; SPI.begin(); setBitOrder; ...
TableSetupBegin ==
  /\ pc = "t_setup"
  /\ PortWrite(B00000000)
  /\ pc' = "t_wait"
  /\ UNCHANGED <<freqVec, cfg, i, tables, serial, tx, pass, mismatch>>

\* delayer(SWEEP_DELAY, DELAY_IS_MICROSECONDS)
TableSetupWait ==
  /\ pc = "t_wait"
  /\ delayerTyped(SWEEP_DELAY, DELAY_IS_MICROSECONDS)
  /\ pc' = "tF_b2"
  /\ UNCHANGED <<freqVec, cfg, i, tables, serial, tx, pass, mismatch>>

TableSetupByte(at) ==
  CASE at = "tF_b2" -> F2
    [] at = "tF_b1" -> F1
    [] at = "tF_b0" -> F0
    [] at = "tR_b2" -> R2
    [] at = "tR_b1" -> R1
    [] at = "tR_b0" -> R0

TableSetupAfter(at) ==
  CASE at = "tF_b2" -> "tF_b1"
    [] at = "tF_b1" -> "tF_b0"
    [] at = "tF_b0" -> "tF_le"
    [] at = "tF_le" -> "tF_hold"
    [] at = "tF_hold" -> "tF_low"
    [] at = "tF_low" -> "tF_idle"
    [] at = "tF_idle" -> "tR_b2"
    [] at = "tR_b2" -> "tR_b1"
    [] at = "tR_b1" -> "tR_b0"
    [] at = "tR_b0" -> "tR_le"
    [] at = "tR_le" -> "tR_hold"
    [] at = "tR_hold" -> "tR_low"
    [] at = "tR_low" -> "tR_idle"
    [] at = "tR_idle" -> "t_loop"

\* SPI.transfer(F2); SPI.transfer(F1); SPI.transfer(F0); and the same for R
TableSetupTransfer ==
  /\ pc \in {"tF_b2", "tF_b1", "tF_b0", "tR_b2", "tR_b1", "tR_b0"}
  /\ Transfer(TableSetupByte(pc))
  /\ pc' = TableSetupAfter(pc)
  /\ UNCHANGED <<freqVec, cfg, i, tables, serial, tx, pass, mismatch>>

\* PORTD = B10000000
TableSetupLatchHigh ==
  /\ pc \in {"tF_le", "tR_le"}
  /\ PortWrite(B10000000)
  /\ pc' = TableSetupAfter(pc)
  /\ UNCHANGED <<freqVec, cfg, i, tables, serial, tx, pass, mismatch>>

\* delayMicroseconds(LE_DURATION)
TableSetupPulse ==
  /\ pc \in {"tF_hold", "tR_hold"}
  /\ delayMicroseconds(LE_DURATION)
  /\ pc' = TableSetupAfter(pc)
  /\ UNCHANGED <<freqVec, cfg, i, tables, serial, tx, pass, mismatch>>

\* PORTD = B00000000
TableSetupLatchLow ==
  /\ pc \in {"tF_low", "tR_low"}
  /\ PortWrite(B00000000)
  /\ pc' = TableSetupAfter(pc)
  /\ UNCHANGED <<freqVec, cfg, i, tables, serial, tx, pass, mismatch>>

\* delayer(TRANSMIT_DELAY, DELAY_IS_MICROSECONDS); after the second one
\* setup returns
TableSetupDwell ==
  /\ pc \in {"tF_idle", "tR_idle"}
  /\ delayerTyped(TRANSMIT_DELAY, DELAY_IS_MICROSECONDS)
  /\ pc' = TableSetupAfter(pc)
  /\ UNCHANGED <<freqVec, cfg, i, tables, serial, tx, pass, mismatch>>

\* SPI.transfer(b23to16); SPI.transfer(b15to8); SPI.transfer(b7to0)
TableWriteTransfer ==
  /\ pc \in {"x_b2", "x_b1", "x_b0"}
  /\ Transfer(CASE pc = "x_b2" -> tx.b23to16
                [] pc = "x_b1" -> tx.b15to8
                [] pc = "x_b0" -> tx.b7to0)
  /\ pc' = (CASE pc = "x_b2" -> "x_b1"
              [] pc = "x_b1" -> "x_b0"
              [] pc = "x_b0" -> "x_le")
  /\ UNCHANGED <<freqVec, cfg, i, tables, serial, tx, pass, mismatch>>

\* if (NewFrame) PORTD = B11000000; else PORTD = B10000000
TableWriteLatchHigh ==
  /\ pc = "x_le"
  /\ PortWrite(IF tx.NewFrame THEN B11000000 ELSE B10000000)
  /\ pc' = "x_hold"
  /\ UNCHANGED <<freqVec, cfg, i, tables, serial, tx, pass, mismatch>>

\* delayMicroseconds(LE_DURATION)
TableWritePulse ==
  /\ pc = "x_hold"
  /\ delayMicroseconds(LE_DURATION)
  /\ pc' = "x_low"
  /\ UNCHANGED <<freqVec, cfg, i, tables, serial, tx, pass, mismatch>>

\* PORTD = B00000000
TableWriteLatchLow ==
  /\ pc = "x_low"
  /\ PortWrite(B00000000)
  /\ pc' = "x_idle"
  /\ UNCHANGED <<freqVec, cfg, i, tables, serial, tx, pass, mismatch>>

\* delayer(TRANSMIT_DELAY, DELAY_IS_MICROSECONDS); return to the caller
TableWriteDwell ==
  /\ pc = "x_idle"
  /\ delayerTyped(TRANSMIT_DELAY, DELAY_IS_MICROSECONDS)
  /\ pc' = tx.ret
  /\ tx' = NoCall
  /\ UNCHANGED <<freqVec, cfg, i, tables, serial, pass, mismatch>>

\* The core calls loop(): int i = 0
TableLoopEnter ==
  /\ pc = "t_loop"
  /\ i' = 0
  /\ passWords' = <<>>
  /\ pc' = "t_for"
  /\ UNCHANGED <<freqVec, cfg, tables, PORTD, shifted, initWords, elapsed,
                 leWidth, waits, serial, tx, pass, mismatch>>

\* Variant that sends entry 0 once more after the for statement, as the
\* sketch in the first half of the file does.
TableLoopStepResend ==
  /\ pc = "t_for"
  /\ tx' = IF i < TableSize
           THEN Call(N2, N1[i], N0[i], i = 0, "t_inc")
           ELSE Call(N2, N1[0], N0[0], FALSE, "t_pause")
  /\ pc' = "x_b2"
  /\ UNCHANGED <<freqVec, cfg, i, tables, bus, serial, pass, mismatch>>

\* i < sizeof(N0): SPIwrite24bitRegister(N2, N1[i], N0[i], i==0); otherwise
\* the for statement is left
TableLoopStep ==
  /\ pc = "t_for"
  /\ IF i < TableSize
     THEN tx' = Call(N2, N1[i], N0[i], i = 0, "t_inc") /\ pc' = "x_b2"
     ELSE tx' = tx /\ pc' = "t_pause"
  /\ UNCHANGED <<freqVec, cfg, i, tables, bus, serial, pass, mismatch>>

\* i++
TableLoopInc ==
  /\ pc = "t_inc"
  /\ i' = i + 1
  /\ pc' = "t_for"
  /\ UNCHANGED <<freqVec, cfg, tables, bus, serial, tx, pass, mismatch>>

\* delayer(SWEEP_DELAY, DELAY_IS_MICROSECONDS); loop returns and the core
\* calls it again
TableLoopPause ==
  /\ pc = "t_pause"
  /\ delayerTyped(SWEEP_DELAY, DELAY_IS_MICROSECONDS)
  /\ pass' = IF pass < MaxPass THEN pass + 1 ELSE pass
  /\ pc' = "t_loop"
  /\ UNCHANGED <<freqVec, cfg, i, tables, serial, tx, mismatch>>

NextTable ==
  \/ TableSetupBegin
  \/ TableSetupWait
  \/ TableSetupTransfer
  \/ TableSetupLatchHigh
  \/ TableSetupPulse
  \/ TableSetupLatchLow
  \/ TableSetupDwell
  \/ TableWriteTransfer
  \/ TableWriteLatchHigh
  \/ TableWritePulse
  \/ TableWriteLatchLow
  \/ TableWriteDwell
  \/ TableLoopEnter
  \/ TableLoopStep
  \/ TableLoopInc
  \/ TableLoopPause

SpecTable == InitTable /\ [][NextTable]_vars

\* ------------------------------------------------------------------------
\* Properties
\* ------------------------------------------------------------------------
HaltPcs == {"s_printR", "s_printF", "s_halt"}

\* The reference and function words recomputed for list element k, as bytes.
StepWords(k) == << RegBytes(BytesOf(k)[0]), RegBytes(BytesOf(k)[2]) >>

AllStepsConsistent == \A k \in DOMAIN freqVec : StepWords(k) = StepWords(0)

\* The bytes calcRegisters stores in N1[k] and N0[k], sent after N2.
FeedbackBytes(k) ==
  << N2, ToByte(lowByte(Shr(BytesOf(k)[1], 8))), ToByte(lowByte(BytesOf(k)[1])) >>

\* C1: the guard in setup halts if and only if some step's recomputed
\* reference or function word differs from the first step's; when every step
\* yields the same two words it passes and setup goes on to SPI.begin().
C1_GuardIffConsistent ==
  /\ mismatch => ~AllStepsConsistent
  /\ pc = "s_spi" => AllStepsConsistent

\* C2: with the shipped frequency list and the shipped selectors, setup does
\* not end in the halt.
C2_ShippedSetupDoesNotHalt ==
  (freqVec = ShippedFreqVec /\ cfg = ShippedCfg) => pc \notin HaltPcs

\* C3: once a comparison of the guard has found a difference, control is in
\* the report-and-halt tail of setup, no byte has been shifted out or latched,
\* LE and SI are low, and no step out of the halt changes anything.
C3_HaltIsSilentAndTerminal ==
  /\ [](mismatch =>
          /\ pc \in HaltPcs
          /\ shifted = <<>> /\ initWords = <<>> /\ passWords = <<>>
          /\ PORTD = B00000000)
  /\ [][pc = "s_halt" => UNCHANGED vars]_vars

C3_Witness ==
  /\ pc = "s_halt"
  /\ mismatch
  /\ serial = <<FMessage>>
  /\ shifted = <<>>
  /\ PORTD = B00000000

\* C4: over the whole run the function word (tag 10) and then the reference
\* word (tag 00) are each latched exactly once, in setup and without SYNC,
\* and everything latched in loop is a feedback word (tag 01).  Stated for
\* every state in which setup sends nothing more: the halt, and loop.
C4_StaticWordsOnceInInit ==
  (pc = "s_halt" \/ pc \notin SetupPcs) =>
     /\ Len(initWords) = 2
     /\ initWords[1].bytes = <<F2, F1, F0>> /\ Tag(F0) = 2
     /\ initWords[2].bytes = <<R2, R1, R0>> /\ Tag(R0) = 0
     /\ ~initWords[1].sync /\ ~initWords[2].sync
     /\ \A k \in DOMAIN passWords :
           Len(passWords[k].bytes) = 3 /\ Tag(passWords[k].bytes[3]) = 1

TransferPcs ==
  {"sF_b2", "sF_b1", "sF_b0", "sR_b2", "sR_b1", "sR_b0", "w_b2", "w_b1", "w_b0"}

PulsePcs == {"sF_hold", "sF_low", "sR_hold", "sR_low", "w_hold", "w_low"}

IdlePcs == {"sF_idle", "sR_idle", "w_idle"}

C10_TagsByLatchKind ==
  pc = "s_chkR" =>
     /\ \E Reg \in {calcWords(freqVec[i], RFInputFrequency, PFDFrequency, cfg).Reg} :
           Tag(Reg[0]) = 0 /\ Tag(Reg[1]) = 1 /\ Tag(Reg[2]) = 2
     /\ Tag(R0) = 0
     /\ Tag(N0[i]) = 1
     /\ Tag(F0) = 2

C10_Witness ==
  /\ pc = "s_chkR"
  /\ cfg.PowerDownBoxSelectedIndex = 2
  /\ cfg.MuxoutBoxSelectedIndex = 7
  /\ cfg.CounterResetBoxSelectedIndex = 1
  /\ freqVec[0] = 13070
  /\ Tag(N0[0]) = 1 /\ Tag(F0) = 2 /\ Tag(R0) = 0

\* The selector values the claims about the generated table name: prescaler
\* index 1, both charge-pump currents 3, test mode 1.
TableGeneratingCfg ==
  /\ cfg.PrescalerBoxIndex = 1
  /\ cfg.ChargePumpSetting1SelectedIndex = 3
  /\ cfg.ChargePumpSetting2SelectedIndex = 3
  /\ cfg.TestmodesBoxSelectedIndex = 1

\* C11 as the specification states it: for a target of 10415 MHz (reference
\* 100 MHz, PFD 1250 kHz, prescaler index 1, charge-pump currents 3 and 3,
\* test mode 1) calcRegisters stores the first entry of the precalculated
\* table, (N1[0], N0[0]) = (0x83, 0x11).
C11_Original ==
  (pc = "s_chkR" /\ i = 0 /\ freqVec[0] = 10415 /\ TableGeneratingCfg) =>
     <<N1[0], N0[0]>> = <<TableN1[1], TableN0[1]>>

\* C11: for a target of 10415 MHz with those settings calcRegisters stores
\* (N1[0], N0[0]) = (0x82, 0x0D), that is N = 2083 = 130*16 + 3; the first
\* entry of the precalculated table, (0x83, 0x11), is what it stores for a
\* target of 10500 MHz (N = 2100 = 131*16 + 4).
C11_FirstEntryOfTable ==
  (pc = "s_chkR" /\ i = 0 /\ TableGeneratingCfg) =>
     /\ freqVec[0] = 10415 => <<N1[0], N0[0]>> = <<130, 13>>
     /\ freqVec[0] = 10500 => <<N1[0], N0[0]>> = <<TableN1[1], TableN0[1]>>

C11_Witness ==
  /\ pc = "s_chkR"
  /\ i = 0
  /\ cfg = ShippedCfg
  /\ freqVec[0] = 10415
  /\ N1[0] = 130
  /\ N0[0] = 13

\* C12: with reference 100 MHz, PFD 1250 kHz, prescaler index 1, charge-pump
\* currents 3 and 3, test mode 1 and the other selectors as shipped, the
\* reference word is 0x910140 and the function word 0x4D8002 (the words of
\* the precalculated sketch) for every target frequency of the sweep, and
\* these are the bytes calcRegisters stores in R2, R1, R0 and F2, F1, F0.
C12_StaticWordsOfShippedConfig ==
  (pc = "s_chkR" /\ cfg = ShippedCfg) =>
     /\ <<R2, R1, R0>> = TableR
     /\ <<F2, F1, F0>> = TableF
     /\ <<R2A[i], R1A[i], R0A[i]>> = TableR
     /\ \A f \in FreqSet \cup {freqVec[k] : k \in DOMAIN freqVec} :
           \E Reg \in {calcWords(f, RFInputFrequency, PFDFrequency, cfg).Reg} :
              /\ Reg[0] = 9503040
              /\ Reg[2] = 5079042
              /\ RegBytes(Reg[0]) = TableR
              /\ RegBytes(Reg[2]) = TableF

C12_Witness ==
  /\ pc = "s_chkR"
  /\ cfg = ShippedCfg
  /\ freqVec = ShippedFreqVec
  /\ <<R2, R1, R0>> = <<145, 1, 64>>
  /\ <<F2, F1, F0>> = <<77, 128, 2>>

\* mostSig << 16 | mid << 8 | least, of three bytes
Reassemble(b) == b[1] * 65536 + b[2] * 256 + b[3]

\* C13: for every target frequency and selector setting handed to
\* calcRegisters, the three bytes kept for transmission of each word
\* reassemble to the computed 24-bit word: R2, R1, R0 (and R2A[i], R1A[i],
\* R0A[i]) to the reference word, F2, F1, F0 to the function word, and the
\* constant N2 with N1[i], N0[i] to the feedback word.
C13_RoundTrip ==
  pc = "s_chkR" =>
     \E Reg \in {calcWords(freqVec[i], RFInputFrequency, PFDFrequency, cfg).Reg} :
        /\ Reassemble(<<R2A[i], R1A[i], R0A[i]>>) = Reg[0]
        /\ i = 0 => Reassemble(<<R2, R1, R0>>) = Reg[0]
        /\ i = 0 => Reassemble(<<F2, F1, F0>>) = Reg[2]
        /\ Reassemble(<<N2, N1[i], N0[i]>>) = Reg[1]

\* The largest delay the sketch's comments allow for one microsecond wait.
MaxMicroseconds == 16383

C15_PulseShorterThanDwellAndPause ==
  pc = "setup" =>
     /\ PULSE_DURATION < DWELL_TIME
     /\ PULSE_DURATION < SWEEP_PAUSE

\* Control is in loop or in a call made by loop.
SteadyState == pc \notin SetupPcs

\* loop has sent every table entry's feedback word in this pass and is about
\* to pause.
PassComplete ==
  /\ pc = "l_pause"
  /\ Len(passWords) = NumFreqs + 1
  /\ \A k \in DOMAIN freqVec : passWords[k + 1].bytes = <<N2, N1[k], N0[k]>>

C17_TablePassOnceInOrder ==
  /\ Len(passWords) <= TableSize
  /\ \A k \in DOMAIN passWords :
        /\ passWords[k].bytes = <<N2, N1[k - 1], N0[k - 1]>>
        /\ passWords[k].sync = (k = 1)
        /\ k >= 2 => passWords[k].gap = LE_DURATION + TRANSMIT_DELAY
  /\ (passWords # <<>> /\ pass >= 1) =>
        passWords[1].gap = LE_DURATION + TRANSMIT_DELAY + SWEEP_DELAY
  /\ pc = "t_for" => (Len(passWords) = i /\ shifted = <<>>)
  /\ pc = "x_idle" =>
        (waits = <<LE_DURATION>> /\ leWidth = LE_DURATION /\ ~LE(PORTD))
  /\ pc = "t_inc" =>
        (Len(passWords) = i + 1 /\ waits = <<LE_DURATION, TRANSMIT_DELAY>>)
  /\ pc = "t_pause" =>
        (Len(passWords) = TableSize /\ shifted = <<>>
           /\ waits = <<LE_DURATION, TRANSMIT_DELAY>>)
  /\ (pc = "t_loop" /\ pass >= 1) =>
        (Len(passWords) = TableSize /\ shifted = <<>>
           /\ waits = <<LE_DURATION, TRANSMIT_DELAY, SWEEP_DELAY>>)

C17_Witness ==
  /\ pc = "t_loop"
  /\ pass >= 2
  /\ TableSize = Len(TableN0)
  /\ passWords[1].sync
  /\ ~passWords[2].sync
  /\ passWords[TableSize].bytes = <<0, 162, 33>>
  /\ waits = <<LE_DURATION, TRANSMIT_DELAY, SWEEP_DELAY>>

\* C18: for every frequency of the shipped list, with reference 100 MHz, PFD
\* 1250 kHz and prescaler index 1, the counters calcRegisters computes have
\* P = 16, N = B*P + A, 0 <= A < P, A <= B, B < 256 and A < 64; so the
\* bytes it stores for the element in hand are N1[i] = B and N0[i] = 4*A + 1.
C18_CountersOfShippedList ==
  (pc = "s_chkR" /\ freqVec = ShippedFreqVec /\ cfg.PrescalerBoxIndex = 1) =>
     /\ \A k \in DOMAIN freqVec :
           \E c \in {calcCounters(freqVec[k], RFInputFrequency, PFDFrequency,
                                  cfg.PrescalerBoxIndex)} :
              /\ c.P = 16
              /\ c.N = c.B * c.P + c.A
              /\ 0 <= c.A /\ c.A < c.P
              /\ c.A <= c.B
              /\ c.B < 256
              /\ c.A < 64
              /\ 4 * (c.N * PFDFrequency) <= freqVec[k] * 1000
              /\ freqVec[k] * 1000 < 4 * ((c.N + 1) * PFDFrequency)
     /\ \E c \in {calcCounters(freqVec[i], RFInputFrequency, PFDFrequency,
                               cfg.PrescalerBoxIndex)} :
           N1[i] = c.B /\ N0[i] = 4 * c.A + 1

C18_Witness ==
  /\ pc = "s_chkR"
  /\ freqVec = ShippedFreqVec
  /\ cfg = ShippedCfg
  /\ i = 0
  /\ N1[0] = 130
  /\ N0[0] = 13

\* a | b on non-negative integers
RECURSIVE BitOr(_, _)
BitOr(a, b) ==
  IF a = 0 THEN b
  ELSE IF b = 0 THEN a
  ELSE (IF a % 2 = 1 \/ b % 2 = 1 THEN 1 ELSE 0)
         + 2 * BitOr(a \div 2, b \div 2)

RECURSIVE BitOrAll(_)
BitOrAll(terms) ==
  IF terms = <<>> THEN 0 ELSE BitOr(Head(terms), BitOrAll(Tail(terms)))

\* C19: for every selector setting handed to calcRegisters, the function
\* word it computes equals the bitwise OR of its shifted fields and the tag,
\* and the muxout field (bits 4..6) of the word is the muxout selector, the
\* power-down field (bit 3) leaving it alone.
C19_FunctionFieldsDisjoint ==
  pc = "s_chkR" =>
     \E w \in {calcWords(freqVec[i], RFInputFrequency, PFDFrequency, cfg)} :
        /\ w.Reg[2] = BitOrAll(w.Reg2Terms)
        /\ MaskBits(Shr(w.Reg[2], 4), 3) = cfg.MuxoutBoxSelectedIndex
        /\ i = 0 => MaskBits(Shr(F0, 4), 3) = cfg.MuxoutBoxSelectedIndex

====
